---- MODULE Spec2Model ----
(***************************************************************************)
(* A model of index-bag (src/src/lib.rs): the generational slot tree       *)
(* IndexBag<T>, its Node tree, the Path codec and the Index handle, and of *)
(* the example driver src/example/rapid.rs.                                *)
(*                                                                         *)
(* Option<X> is written as a sequence: None is << >>, Some(x) is << x >>.  *)
(* A usize is held modulo 2^64 (USIZE_BITS, lib.rs:33).  The model writes  *)
(* the residue nearest zero, so the wrapped value 2^64 - k is written -k;  *)
(* on such residues +1 and -1 are exact and the unsigned test `x > 0` is   *)
(* `x # 0`.  Positions and generations stay far below 2^63.                *)
(***************************************************************************)
EXTENDS Integers, Sequences, FiniteSets, TLC

(***************************************************************************)
(* Bounds of the model.                                                    *)
(***************************************************************************)
\* at most MaxInserts calls of insert are made
MaxInserts == 5
\* at most MaxMisses calls of remove are made on a slot that is already empty
MaxMisses == 1

\* after the opening inserts of the prefilled bag, at most MaxRefills calls of
\* insert are made and at most MaxRemoves calls of remove return a value
MaxRefills == 2
MaxRemoves == 3

\* the calls the example's main opens with: seven inserts
PrefillInserts == 7

\* the first value stored (the doc examples store 10, 11, 12, 13)
FirstValue == 10

None == << >>
Some(x) == << x >>

(***************************************************************************)
(* struct Index { index: NonZeroUsize, generation: usize }                 *)
(***************************************************************************)
\* a handle that always carries the generation a slot is created with
Index_new_first(generation) == [index |-> 1, generation |-> 0]

Index_new(generation) == [index |-> 1, generation |-> generation]

\* a push_left that leaves the position as the child returned it
Index_push_left_unshifted(self) == self

Index_push_left(self) == [self EXCEPT !.index = self.index * 2]

\* a push_right that loses the bit of the Right step
Index_push_right_lost(self) == [self EXCEPT !.index = self.index * 2]

Index_push_right(self) == [self EXCEPT !.index = self.index * 2 + 1]

Index_into(self) == self.index

(***************************************************************************)
(* struct Path { depth: u8, path: usize }                                  *)
(***************************************************************************)
RECURSIVE HighBit(_)
\* the depth the loop of Path::new stops at: the place of the highest set bit
HighBit(index) == IF index <= 1 THEN 0 ELSE 1 + HighBit(index \div 2)

Path_new(index) ==
    LET depth == HighBit(index)
    IN  [depth |-> depth, path |-> index % (2 ^ depth)]

\* a next that reads the steps from the high end of the path downward
Path_next_high_first(self) ==
    IF self.depth = 0
    THEN [step |-> None, path |-> self]
    ELSE [step |-> IF (self.path \div (2 ^ (self.depth - 1))) % 2 = 0
                   THEN Some("Left") ELSE Some("Right"),
          path |-> [depth |-> self.depth - 1,
                    path |-> self.path % (2 ^ (self.depth - 1))]]

\* Iterator::next: the step read, and the iterator after the call
Path_next(self) ==
    IF self.depth = 0
    THEN [step |-> None, path |-> self]
    ELSE [step |-> IF self.path % 2 = 0 THEN Some("Left") ELSE Some("Right"),
          path |-> [depth |-> self.depth - 1, path |-> self.path \div 2]]

Index_path(self) == Path_new(self.index)

(***************************************************************************)
(* enum Node<T> { Index { value, vacant_children, generation, left,        *)
(* right }, Leaf }                                                         *)
(***************************************************************************)
Leaf == [tag |-> "Leaf"]

NodeIndex(value, vacant_children, generation, left, right) ==
    [tag |-> "Index", value |-> value, vacant_children |-> vacant_children,
     generation |-> generation, left |-> left, right |-> right]

IsLeaf(node) == node.tag = "Leaf"

Node_new(value) == NodeIndex(Some(value), 0, 0, Leaf, Leaf)

Node_vacant_children(self) == IF IsLeaf(self) THEN 0 ELSE self.vacant_children

\* a generation query that reports the generation a slot is created with
Node_generation_first(self) == IF IsLeaf(self) THEN None ELSE Some(0)

Node_generation(self) == IF IsLeaf(self) THEN None ELSE Some(self.generation)

RECURSIVE Node_get(_, _)
Node_get(self, index) ==
    LET n == Path_next(index)
    IN  IF n.step = None THEN Some(self)
        ELSE IF IsLeaf(self) THEN None
        ELSE IF n.step = Some("Left") THEN Node_get(self.left, n.path)
        ELSE Node_get(self.right, n.path)

\* the same walk as Node_get; the reference it returns is mutable
Node_get_mut(self, index) == Node_get(self, index)

\* a matches that accepts any generation
Node_matches_any(self, index) == IF ~IsLeaf(self) THEN Some(self) ELSE None

Node_matches(self, index) ==
    IF ~IsLeaf(self) /\ index.generation = self.generation THEN Some(self) ELSE None

Node_matches_mut(self, index) ==
    IF IsLeaf(self) THEN None
    ELSE IF index.generation # self.generation THEN None
    ELSE Some(self)

Node_value(self) == IF IsLeaf(self) THEN None ELSE self.value

Node_value_mut(self) == IF IsLeaf(self) THEN None ELSE self.value

\* a removal that also starts the slot's generations over
Node_remove_value_reset(self) ==
    IF IsLeaf(self)
    THEN [node |-> self, removed |-> None]
    ELSE [node |-> [self EXCEPT !.vacant_children = @ + 1, !.value = None,
                                !.generation = 0],
          removed |-> self.value]

\* a removal that does not count the vacancy it makes
Node_remove_value_uncounted(self) ==
    IF IsLeaf(self)
    THEN [node |-> self, removed |-> None]
    ELSE [node |-> [self EXCEPT !.value = None], removed |-> self.value]

\* the node after the call, and the value returned
Node_remove_value(self) ==
    IF IsLeaf(self)
    THEN [node |-> self, removed |-> None]
    ELSE [node |-> [self EXCEPT !.vacant_children = @ + 1, !.value = None],
          removed |-> self.value]

RECURSIVE Node_remove(_, _)
Node_remove(self, path) ==
    LET n == Path_next(path)
    IN  IF n.step = None THEN Node_remove_value(self)
        ELSE IF IsLeaf(self) THEN [node |-> self, removed |-> None]
        ELSE IF n.step = Some("Left")
        THEN LET r == Node_remove(self.left, n.path)
             IN  [node |-> [self EXCEPT
                               !.left = r.node,
                               !.vacant_children =
                                   IF r.removed = None THEN @ ELSE @ + 1],
                  removed |-> r.removed]
        ELSE LET r == Node_remove(self.right, n.path)
             IN  [node |-> [self EXCEPT
                               !.right = r.node,
                               !.vacant_children =
                                   IF r.removed = None THEN @ ELSE @ + 1],
                  removed |-> r.removed]

(***************************************************************************)
(* Node::insert.  `checked` is the build: TRUE for a build with            *)
(* debug_assertions and overflow checks (a debug build), where a failed    *)
(* debug_assert! and a subtraction below 0 panic; FALSE for a release      *)
(* build, where debug_assert! is compiled out and the subtraction wraps.   *)
(* unreachable! panics in both.  The result is the node after the call,    *)
(* the Index returned, and whether the call panicked (the node then holds  *)
(* the writes made before the panic).                                      *)
(***************************************************************************)
Panicked(node) == [node |-> node, index |-> Index_new(0), panic |-> TRUE]

\* a refilling arm that takes an occupied slot too
VacantSlot_any(self) == TRUE

\* the pattern `value: value @ None` of the arm that refills a slot
VacantSlot(self) == self.value = None

RECURSIVE Node_insert(_, _, _, _)
Node_insert(self, inner, path, checked) ==
    LET n == Path_next(path)
    IN  IF IsLeaf(self)
        THEN IF n.step = None
             THEN [node |-> Node_new(inner), index |-> Index_new(0), panic |-> FALSE]
             ELSE Panicked(self)
        ELSE IF VacantSlot(self)
        THEN IF checked /\ self.vacant_children = 0
             THEN Panicked([self EXCEPT !.value = Some(inner)])
             ELSE [node |-> [self EXCEPT !.value = Some(inner),
                                         !.vacant_children = @ - 1,
                                         !.generation = @ + 1],
                   index |-> Index_new(self.generation + 1),
                   panic |-> FALSE]
        ELSE IF Node_vacant_children(self.left) # 0
        THEN IF checked /\ self.vacant_children < Node_vacant_children(self.left)
             THEN Panicked(self)
             ELSE IF checked /\ self.vacant_children = 0
             THEN Panicked(self)
             ELSE LET r == Node_insert(self.left, inner, n.path, checked)
                  IN  [node |-> [self EXCEPT !.vacant_children = @ - 1,
                                             !.left = r.node],
                       index |-> Index_push_left(r.index),
                       panic |-> r.panic]
        ELSE IF Node_vacant_children(self.right) # 0
        THEN IF checked /\ self.vacant_children < Node_vacant_children(self.right)
             THEN Panicked(self)
             ELSE IF checked /\ self.vacant_children = 0
             THEN Panicked(self)
             ELSE LET r == Node_insert(self.right, inner, n.path, checked)
                  IN  [node |-> [self EXCEPT !.vacant_children = @ - 1,
                                             !.right = r.node],
                       index |-> Index_push_right(r.index),
                       panic |-> r.panic]
        ELSE IF n.step = Some("Left")
        THEN LET r == Node_insert(self.left, inner, n.path, checked)
             IN  [node |-> [self EXCEPT !.left = r.node],
                  index |-> Index_push_left(r.index),
                  panic |-> r.panic]
        ELSE IF n.step = Some("Right")
        THEN LET r == Node_insert(self.right, inner, n.path, checked)
             IN  [node |-> [self EXCEPT !.right = r.node],
                  index |-> Index_push_right(r.index),
                  panic |-> r.panic]
        ELSE Panicked(self)

(***************************************************************************)
(* The descent of each operation: the kinds of the nodes a call and the    *)
(* calls it makes on children are made on, from the root down.             *)
(***************************************************************************)
RECURSIVE Node_get_visits(_, _)
Node_get_visits(self, index) ==
    LET n == Path_next(index)
    IN  IF n.step = None THEN <<self.tag>>
        ELSE IF IsLeaf(self) THEN <<self.tag>>
        ELSE IF n.step = Some("Left")
        THEN <<self.tag>> \o Node_get_visits(self.left, n.path)
        ELSE <<self.tag>> \o Node_get_visits(self.right, n.path)

Node_get_mut_visits(self, index) == Node_get_visits(self, index)

RECURSIVE Node_remove_visits(_, _)
Node_remove_visits(self, path) ==
    LET n == Path_next(path)
    IN  IF n.step = None THEN <<self.tag>>
        ELSE IF IsLeaf(self) THEN <<self.tag>>
        ELSE IF n.step = Some("Left")
        THEN <<self.tag>> \o Node_remove_visits(self.left, n.path)
        ELSE <<self.tag>> \o Node_remove_visits(self.right, n.path)

RECURSIVE Node_insert_visits(_, _, _)
Node_insert_visits(self, path, checked) ==
    LET n == Path_next(path)
    IN  IF IsLeaf(self) THEN <<self.tag>>
        ELSE IF VacantSlot(self) THEN <<self.tag>>
        ELSE IF Node_vacant_children(self.left) # 0
        THEN IF checked /\ (\/ self.vacant_children < Node_vacant_children(self.left)
                            \/ self.vacant_children = 0)
             THEN <<self.tag>>
             ELSE <<self.tag>> \o Node_insert_visits(self.left, n.path, checked)
        ELSE IF Node_vacant_children(self.right) # 0
        THEN IF checked /\ (\/ self.vacant_children < Node_vacant_children(self.right)
                            \/ self.vacant_children = 0)
             THEN <<self.tag>>
             ELSE <<self.tag>> \o Node_insert_visits(self.right, n.path, checked)
        ELSE IF n.step = Some("Left")
        THEN <<self.tag>> \o Node_insert_visits(self.left, n.path, checked)
        ELSE IF n.step = Some("Right")
        THEN <<self.tag>> \o Node_insert_visits(self.right, n.path, checked)
        ELSE <<self.tag>>

(***************************************************************************)
(* impl IndexBag<T>.  A bag is [data, pool_size].                          *)
(***************************************************************************)
IndexBag_new == [data |-> Leaf, pool_size |-> 0]

IndexBag_pool_size(self) == self.pool_size

IndexBag_unused_indexes(self) == Node_vacant_children(self.data)

\* the bag after the call, the Index returned, and whether the call panicked
IndexBag_insert(self, value, checked) ==
    LET append_path == Path_new(self.pool_size + 1)
        r == Node_insert(self.data, value, append_path, checked)
        inserted_index == r.index.index
    IN  IF r.panic
        THEN [bag |-> [self EXCEPT !.data = r.node], index |-> r.index, panic |-> TRUE]
        ELSE IF inserted_index > self.pool_size
        THEN IF checked /\ inserted_index # self.pool_size + 1
             THEN [bag |-> [self EXCEPT !.data = r.node], index |-> r.index,
                   panic |-> TRUE]
             ELSE [bag |-> [data |-> r.node, pool_size |-> inserted_index],
                   index |-> r.index, panic |-> FALSE]
        ELSE [bag |-> [self EXCEPT !.data = r.node], index |-> r.index,
              panic |-> FALSE]

\* a remove that validates the generation before it removes
IndexBag_remove_matching(self, index) ==
    LET found == Node_get(self.data, Index_path(index))
        r == Node_remove(self.data, Index_path(index))
    IN  IF found = None \/ Node_matches(found[1], index) = None
        THEN [bag |-> self, removed |-> None]
        ELSE [bag |-> [self EXCEPT !.data = r.node], removed |-> r.removed]

\* the bag after the call, and the value returned
IndexBag_remove(self, index) ==
    LET r == Node_remove(self.data, Index_path(index))
    IN  [bag |-> [self EXCEPT !.data = r.node], removed |-> r.removed]

IndexBag_get(self, index) ==
    LET found == Node_get(self.data, Index_path(index))
        matched == IF found = None THEN None ELSE Node_matches(found[1], index)
    IN  IF matched = None THEN None ELSE Node_value(matched[1])

IndexBag_get_mut(self, index) ==
    LET found == Node_get_mut(self.data, Index_path(index))
        matched == IF found = None THEN None ELSE Node_matches_mut(found[1], index)
    IN  IF matched = None THEN None ELSE Node_value_mut(matched[1])

IndexBag_get_index(self, index) ==
    IF index = 0 THEN None
    ELSE LET found == Node_get(self.data, Path_new(index))
             generation == IF found = None THEN None ELSE Node_generation(found[1])
         IN  IF generation = None THEN None
             ELSE Some([index |-> index, generation |-> generation[1]])

(***************************************************************************)
(* The program state.                                                      *)
(*   bag       the IndexBag                                                *)
(*   checked   the build (see Node_insert); fixed at construction          *)
(*   panicked  a call has panicked; nothing runs after it                  *)
(*   last      the name of the last call that wrote to the bag             *)
(*   issued    every (value, index) pair of an insert that has returned    *)
(*   removed   every Index for which a remove has returned a value         *)
(*   inserts   the number of insert calls made                             *)
(*   misses    the number of remove calls made on a slot already empty     *)
(*   values    the Vec<(u16, Index)> the example driver keeps              *)
(***************************************************************************)
VARIABLES bag, checked, panicked, last, issued, removed, inserts, misses,
          values

vars == <<bag, checked, panicked, last, issued, removed, inserts, misses, values>>

\* a position MaxInserts levels below the root, which no bag of MaxInserts
\* inserts holds
FarIndex == 2 ^ MaxInserts

\* handles taken from another bag: its first handle to the position this bag
\* would fill next, and to a position far below
ForeignHandles ==
    {[index |-> p, generation |-> 0] : p \in {bag.pool_size + 1, FarIndex}}

\* the handles this bag has returned
IssuedHandles == {e.index : e \in issued}

\* the handles a caller may pass: those this bag has returned, and foreign ones
Handles == IssuedHandles \cup ForeignHandles

\* the value a caller stores: T is opaque to the bag, and every insert stores
\* a value no earlier insert stored, so that a value names the insert it is from
NextValue == FirstValue + inserts

Init ==
    /\ bag = IndexBag_new
    /\ checked \in BOOLEAN
    /\ panicked = FALSE
    /\ last = "new"
    /\ issued = {}
    /\ removed = {}
    /\ inserts = 0
    /\ misses = 0
    /\ values = {}

\* bag.insert(value)
InsertCall(value) ==
    LET r == IndexBag_insert(bag, value, checked)
    IN  /\ ~panicked
        /\ inserts < MaxInserts
        /\ bag' = r.bag
        /\ panicked' = r.panic
        /\ inserts' = inserts + 1
        /\ issued' = IF r.panic THEN issued
                     ELSE issued \cup {[value |-> value, index |-> r.index]}
        /\ last' = "insert"
        /\ UNCHANGED <<checked, removed, misses>>

\* bag.remove(index)
RemoveCall(index) ==
    LET r == IndexBag_remove(bag, index)
        miss == r.removed = None /\ r.bag # bag
    IN  /\ ~panicked
        /\ miss => misses < MaxMisses
        /\ bag' = r.bag
        /\ misses' = IF miss THEN misses + 1 ELSE misses
        /\ removed' = IF r.removed = None THEN removed ELSE removed \cup {index}
        /\ last' = "remove"
        /\ UNCHANGED <<checked, panicked, issued, inserts>>

\* a call that only reads the bag: get, get_mut, get_index
ReadCall ==
    /\ ~panicked
    /\ UNCHANGED <<bag, checked, panicked, last, issued, removed, inserts, misses>>

(***************************************************************************)
(* Any caller: every operation, with any handle.                           *)
(***************************************************************************)
Insert == InsertCall(NextValue) /\ UNCHANGED values

Remove == \E index \in Handles : RemoveCall(index) /\ UNCHANGED values

\* what get and get_mut may return: no value, or one of the values stored
Lookups == {None} \cup {Some(v) : v \in FirstValue..NextValue}

\* bag.get(index), for whichever handle: it returns an Option and writes nothing
Get ==
    /\ \A index \in Handles : IndexBag_get(bag, index) \in Lookups
    /\ ReadCall
    /\ UNCHANGED values

\* bag.get_mut(index), for whichever handle; the caller does not write through
\* the reference
GetMut ==
    /\ \A index \in Handles : IndexBag_get_mut(bag, index) \in Lookups
    /\ ReadCall
    /\ UNCHANGED values

\* bag.get_index(index), for whichever usize
GetIndex ==
    /\ \A index \in 0..(bag.pool_size + 1) :
           IndexBag_get_index(bag, index) \in {None} \cup {Some(h) : h \in IssuedHandles}
    /\ ReadCall
    /\ UNCHANGED values

Next == Insert \/ Remove \/ Get \/ GetMut \/ GetIndex

Spec == Init /\ [][Next]_vars

(***************************************************************************)
(* The example driver (rapid.rs): Action::enact on a bag and the Vec of    *)
(* the (value, index) pairs it holds.  main shuffles the Vec before every  *)
(* action, so the pair popped or looked up is any pair of the Vec.         *)
(***************************************************************************)
DriverInsert ==
    LET r == IndexBag_insert(bag, NextValue, checked)
    IN  /\ InsertCall(NextValue)
        /\ values' = IF r.panic THEN values
                     ELSE values \cup {[value |-> NextValue, index |-> r.index]}

\* .expect() panics on None, assert_eq! on another value
DriverRemove ==
    \E e \in values :
        LET r == IndexBag_remove(bag, e.index)
        IN  /\ ~panicked
            /\ bag' = r.bag
            /\ values' = values \ {e}
            /\ panicked' = (r.removed # Some(e.value))
            /\ misses' = IF r.removed = None /\ r.bag # bag THEN misses + 1 ELSE misses
            /\ removed' = IF r.removed = None THEN removed ELSE removed \cup {e.index}
            /\ last' = "remove"
            /\ UNCHANGED <<checked, issued, inserts>>

DriverLookup ==
    \E e \in values :
        /\ ~panicked
        /\ panicked' = (IndexBag_get(bag, e.index) # Some(e.value))
        /\ UNCHANGED <<bag, checked, last, issued, removed, inserts, misses, values>>

DriverNext == DriverInsert \/ DriverRemove \/ DriverLookup

DriverSpec == Init /\ [][DriverNext]_vars

(***************************************************************************)
(* Any caller, on a bag that already holds the values of PrefillInserts    *)
(* inserts, as main's bag does after its opening actions.                  *)
(***************************************************************************)
RECURSIVE Prefilled(_)
\* the bag after n inserts into a new bag, with the handles they returned
Prefilled(n) ==
    IF n = 0 THEN [bag |-> IndexBag_new, issued |-> {}]
    ELSE LET before == Prefilled(n - 1)
             r == IndexBag_insert(before.bag, FirstValue + n - 1, TRUE)
         IN  [bag |-> r.bag,
              issued |-> before.issued
                  \cup {[value |-> FirstValue + n - 1, index |-> r.index]}]

PrefilledInit ==
    /\ bag = Prefilled(PrefillInserts).bag
    /\ checked \in BOOLEAN
    /\ panicked = FALSE
    /\ last = "insert"
    /\ issued = Prefilled(PrefillInserts).issued
    /\ removed = {}
    /\ inserts = PrefillInserts
    /\ misses = 0
    /\ values = {}

\* bag.insert(value) on the prefilled bag
PrefilledInsert ==
    LET r == IndexBag_insert(bag, NextValue, checked)
    IN  /\ ~panicked
        /\ inserts < PrefillInserts + MaxRefills
        /\ bag' = r.bag
        /\ panicked' = r.panic
        /\ inserts' = inserts + 1
        /\ issued' = IF r.panic THEN issued
                     ELSE issued \cup {[value |-> NextValue, index |-> r.index]}
        /\ last' = "insert"
        /\ UNCHANGED <<checked, removed, misses, values>>

\* bag.remove(index) on the prefilled bag, with any handle the bag has returned
PrefilledRemove ==
    \E index \in IssuedHandles :
        /\ RemoveCall(index)
        /\ Cardinality(removed') <= MaxRemoves
        /\ UNCHANGED values

PrefilledNext == PrefilledInsert \/ PrefilledRemove \/ Get \/ GetMut \/ GetIndex

PrefilledSpec == PrefilledInit /\ [][PrefilledNext]_vars

(***************************************************************************)
(* Definitions the properties below are stated with.                       *)
(***************************************************************************)
\* the node a handle's position addresses, as Node::get finds it
SlotAt(b, index) == Node_get(b.data, Index_path(index))

\* the position holds a slot (an Index node) of bag b
Allocated(b, index) == SlotAt(b, index) # None /\ ~IsLeaf(SlotAt(b, index)[1])

RECURSIVE VacantCount(_)
\* the number of slots of the subtree that hold no value
VacantCount(node) ==
    IF IsLeaf(node) THEN 0
    ELSE (IF node.value = None THEN 1 ELSE 0)
         + VacantCount(node.left) + VacantCount(node.right)

RECURSIVE CountsExact(_)
\* every slot of the subtree counts exactly the value-less slots at or below it
CountsExact(node) ==
    IF IsLeaf(node) THEN TRUE
    ELSE /\ node.vacant_children = VacantCount(node)
         /\ CountsExact(node.left)
         /\ CountsExact(node.right)

\* what the next insert would do in the current state
NextInsert == IndexBag_insert(bag, NextValue, checked)

\* the value the last insert stored
LastValue == FirstValue + inserts - 1

(***************************************************************************)
(* C1  Round-trip: in every state the bag can reach, an insert of v that   *)
(* returns a handle h leaves the bag such that get(h) returns v.           *)
(***************************************************************************)
C1_RoundTrip ==
    ~panicked =>
        (~NextInsert.panic =>
            IndexBag_get(NextInsert.bag, NextInsert.index) = Some(NextValue))

\* an insert has just refilled a slot below the root, and its handle resolves
C1_Witness ==
    /\ ~panicked
    /\ last = "insert"
    /\ \E e \in issued :
          /\ e.value = LastValue
          /\ e.index.generation >= 1
          /\ e.index.index >= 2
          /\ IndexBag_get(bag, e.index) = Some(LastValue)

(***************************************************************************)
(* C2  Live handles stay valid: under the driver's discipline (remove only *)
(* a handle insert returned and not yet removed) no call panics and every  *)
(* handle still held resolves to its own value with get and get_mut, and   *)
(* remove of it would return exactly that value.                           *)
(***************************************************************************)
C2_LiveHandlesValid ==
    /\ ~panicked
    /\ \A e \in values :
          /\ IndexBag_get(bag, e.index) = Some(e.value)
          /\ IndexBag_get_mut(bag, e.index) = Some(e.value)
          /\ IndexBag_remove(bag, e.index).removed = Some(e.value)

\* two handles are held, one of them to a refilled slot, after a remove
C2_Witness ==
    /\ last = "remove"
    /\ removed # {}
    /\ Cardinality(values) >= 2
    /\ \E e \in values : e.index.generation >= 1
    /\ \A e \in values : IndexBag_get(bag, e.index) = Some(e.value)

(***************************************************************************)
(* C3  Generational isolation: when a later insert has returned a handle   *)
(* h2 to the position of an earlier handle h, get(h) returns None and h2's *)
(* generation differs from h's; no handle ever resolves to a value other   *)
(* than its own; and right after the insert get(h2) returns the new value. *)
(***************************************************************************)
C3_GenerationalIsolation ==
    ~panicked =>
        /\ \A e \in issued :
              IndexBag_get(bag, e.index) \in {None, Some(e.value)}
        /\ \A e, e2 \in issued :
              (e.index.index = e2.index.index /\ e.value < e2.value) =>
                  /\ IndexBag_get(bag, e.index) = None
                  /\ e2.index.generation # e.index.generation
        /\ last = "insert" =>
              \E e2 \in issued :
                  e2.value = LastValue /\ IndexBag_get(bag, e2.index) = Some(LastValue)

\* a position was removed and refilled: the old handle misses, the new one hits
C3_Witness ==
    /\ ~panicked
    /\ \E e, e2 \in issued :
          /\ e.index.index = e2.index.index
          /\ e.value < e2.value
          /\ e.index \in removed
          /\ IndexBag_get(bag, e.index) = None
          /\ IndexBag_get(bag, e2.index) = Some(e2.value)

(***************************************************************************)
(* C4  Remove-then-miss: once remove(h) has returned a value, every later  *)
(* remove(h) and every later get(h) returns None.                          *)
(***************************************************************************)
C4_RemoveThenMiss ==
    ~panicked =>
        \A h \in removed :
            /\ IndexBag_get(bag, h) = None
            /\ IndexBag_remove(bag, h).removed = None

(***************************************************************************)
(* C5  Vacancy accounting: unused_indexes() is the number of allocated     *)
(* slots that hold no value, and every slot's vacant_children is the       *)
(* number of value-less slots at or below it.                              *)
(***************************************************************************)
C5_VacancyAccounting ==
    ~panicked =>
        /\ IndexBag_unused_indexes(bag) = VacantCount(bag.data)
        /\ CountsExact(bag.data)

(***************************************************************************)
(* C6  Reuse preference: an insert made while some allocated slot holds no *)
(* value leaves pool_size() as it is and returns a position no greater     *)
(* than it; pool_size() grows only when no allocated slot is empty.        *)
(***************************************************************************)
C6_ReusePreference ==
    (~panicked /\ ~NextInsert.panic) =>
        /\ VacantCount(bag.data) > 0 =>
              /\ NextInsert.bag.pool_size = bag.pool_size
              /\ NextInsert.index.index <= bag.pool_size
        /\ NextInsert.bag.pool_size > bag.pool_size => VacantCount(bag.data) = 0

(***************************************************************************)
(* C7  pool_size() is a high-water mark: no call lowers it, remove leaves  *)
(* it as it is, an insert leaves it or raises it by exactly one, and it    *)
(* never exceeds the number of inserts made.                               *)
(***************************************************************************)
C7_PoolSizeHighWater ==
    ~panicked =>
        /\ bag.pool_size <= inserts
        /\ \A h \in Handles : IndexBag_remove(bag, h).bag.pool_size = bag.pool_size
        /\ ~NextInsert.panic =>
              NextInsert.bag.pool_size \in {bag.pool_size, bag.pool_size + 1}

(***************************************************************************)
(* C8  Growth order: while no remove has written to the bag, the k-th      *)
(* insert has returned position k with generation 0, pool_size() is the    *)
(* number of inserts, and the append path of pool_size() + 1 ends at a     *)
(* Leaf reached through slots only.                                        *)
(***************************************************************************)
C8_GrowthOrder ==
    (~panicked /\ removed = {} /\ misses = 0) =>
        /\ bag.pool_size = inserts
        /\ issued = {[value |-> FirstValue + k - 1,
                      index |-> [index |-> k, generation |-> 0]] : k \in 1..inserts}
        /\ \A e \in issued : IndexBag_get(bag, e.index) = Some(e.value)
        /\ Node_get(bag.data, Path_new(bag.pool_size + 1)) = Some(Leaf)
        /\ ~NextInsert.panic
        /\ NextInsert.index = [index |-> inserts + 1, generation |-> 0]

\* five inserts and no remove: the fifth position lies two levels down
C8_Witness ==
    /\ ~panicked
    /\ removed = {}
    /\ misses = 0
    /\ inserts >= 5
    /\ bag.pool_size = inserts
    /\ last = "insert"

(***************************************************************************)
(* C9  Not-found is a value: for a handle whose position was never         *)
(* allocated, whose slot is empty, or whose generation is not the slot's,  *)
(* get, get_mut and remove each return None.                               *)
(***************************************************************************)
NotFound(b, h) ==
    \/ ~Allocated(b, h)
    \/ SlotAt(b, h)[1].value = None
    \/ SlotAt(b, h)[1].generation # h.generation

C9_NotFoundIsNone ==
    ~panicked =>
        \A h \in Handles :
            NotFound(bag, h) =>
                /\ IndexBag_get(bag, h) = None
                /\ IndexBag_get_mut(bag, h) = None
                /\ IndexBag_remove(bag, h).removed = None

IssuedAt(position) == {e \in issued : Index_into(e.index) = position}

\* the handle most recently returned for a position that has one
LatestAt(position) ==
    (CHOOSE e \in IssuedAt(position) :
        \A e2 \in IssuedAt(position) : e2.value <= e.value).index

(***************************************************************************)
(* C11  get_index: for position 0 and for a position no insert has         *)
(* allocated it returns None; for an allocated position it returns the     *)
(* position with the slot's current generation, which is the handle most   *)
(* recently returned for the position, whether or not a value is stored.   *)
(* So get_index(h.into()) = Some(h) right after the insert that returned   *)
(* h, a reuse included.                                                    *)
(***************************************************************************)
C11_GetIndex ==
    [](~panicked =>
        /\ IndexBag_get_index(bag, 0) = None
        /\ \A i \in (1..(bag.pool_size + 1)) \cup {FarIndex} :
              IF IssuedAt(i) = {}
              THEN /\ ~Allocated(bag, [index |-> i, generation |-> 0])
                   /\ IndexBag_get_index(bag, i) = None
              ELSE /\ IndexBag_get_index(bag, i) = Some(LatestAt(i))
                   /\ LatestAt(i).generation = SlotAt(bag, LatestAt(i))[1].generation
        /\ ~NextInsert.panic =>
              IndexBag_get_index(NextInsert.bag, Index_into(NextInsert.index))
                  = Some(NextInsert.index))

\* an insert has just reused a position: get_index of the position gives the
\* newer handle, not the one first returned for it
C11_Witness ==
    /\ ~panicked
    /\ last = "insert"
    /\ \E e \in issued, e2 \in issued :
          /\ Index_into(e.index) = Index_into(e2.index)
          /\ e.value < e2.value
          /\ e2.value = LastValue
          /\ e2.index.generation > e.index.generation
          /\ IndexBag_get_index(bag, Index_into(e.index)) = Some(e2.index)

RECURSIVE CountsNatural(_)
\* no vacancy count of the subtree has been decremented below 0 (a count that
\* wrapped around is written as a negative number)
CountsNatural(node) ==
    IF IsLeaf(node) THEN TRUE
    ELSE /\ node.vacant_children >= 0
         /\ CountsNatural(node.left)
         /\ CountsNatural(node.right)

(***************************************************************************)
(* C12  insert never fails: in every state the public operations can       *)
(* reach, removing the same handle twice included, the next insert returns *)
(* a handle: it does not reach unreachable!, violates no debug assertion,  *)
(* and decrements no vacant_children count that is already 0.              *)
(***************************************************************************)
C12_InsertNeverFails ==
    /\ ~panicked
    /\ ~NextInsert.panic
    /\ CountsNatural(NextInsert.bag.data)

RECURSIVE SlotSteps(_, _)
\* between the trees before and after a step, every position either keeps its
\* kind, value and generation, or makes one of the three changes: a Leaf
\* becomes a slot holding a value at generation 0 with Leaf children, a slot
\* holding a value becomes empty at the same generation, an empty slot comes
\* to hold a value at the next generation
SlotSteps(before, after) ==
    IF IsLeaf(before)
    THEN \/ IsLeaf(after)
         \/ /\ after.value # None
            /\ after.generation = 0
            /\ IsLeaf(after.left)
            /\ IsLeaf(after.right)
    ELSE /\ ~IsLeaf(after)
         /\ \/ /\ after.value = before.value
               /\ after.generation = before.generation
            \/ /\ before.value # None
               /\ after.value = None
               /\ after.generation = before.generation
            \/ /\ before.value = None
               /\ after.value # None
               /\ after.generation = before.generation + 1
         /\ SlotSteps(before.left, after.left)
         /\ SlotSteps(before.right, after.right)

(***************************************************************************)
(* C13  Per-position state machine: in every step of any caller, each      *)
(* position of the tree is unchanged or goes Leaf -> slot holding a value  *)
(* at generation 0, slot holding a value -> empty slot of the same         *)
(* generation, or empty slot -> slot holding a value at the generation     *)
(* plus 1.  A slot never becomes a Leaf and no generation decreases; the   *)
(* reading calls change nothing.                                           *)
(***************************************************************************)
C13_SlotStateMachine == [][SlotSteps(bag.data, bag'.data)]_vars

\* a position has gone through every change: its slot was created, emptied,
\* refilled at generation 1 and emptied again
C13_Witness ==
    /\ ~panicked
    /\ last = "remove"
    /\ \E h \in removed :
          /\ h.generation = 1
          /\ SlotAt(bag, h)[1].value = None
          /\ SlotAt(bag, h)[1].generation = 1

RECURSIVE FirstVacantFilled(_, _)
\* between the trees before and after an insert: the first slot without a
\* value, in pre-order, has come to hold one, and every slot on the way to it,
\* itself included, counts one vacancy fewer
FirstVacantFilled(before, after) ==
    IF IsLeaf(before) \/ IsLeaf(after) THEN FALSE
    ELSE /\ after.vacant_children = before.vacant_children - 1
         /\ IF before.value = None THEN after.value # None
            ELSE IF VacantCount(before.left) > 0
                 THEN FirstVacantFilled(before.left, after.left)
                 ELSE FirstVacantFilled(before.right, after.right)

(***************************************************************************)
(* C14  Reuse selection order: whenever the next insert fills a position   *)
(* that is already allocated, the slot it fills is the first slot without  *)
(* a value in pre-order from the root (a slot before anything below it,    *)
(* the left subtree before the right), and every slot passed on the way,   *)
(* the filled one included, has its vacancy count decremented by 1.        *)
(***************************************************************************)
C14_ReuseOrder ==
    (~panicked /\ ~NextInsert.panic /\ Allocated(bag, NextInsert.index)) =>
        FirstVacantFilled(bag.data, NextInsert.bag.data)

RECURSIVE HighFirst(_, _)
\* the steps that depth bits spell when read from the high end downward
HighFirst(bits, depth) ==
    IF depth = 0 THEN << >>
    ELSE <<IF (bits \div (2 ^ (depth - 1))) % 2 = 0 THEN "Left" ELSE "Right">>
         \o HighFirst(bits % (2 ^ (depth - 1)), depth - 1)

RECURSIVE LowFirst(_, _)
\* the steps that depth bits spell when read from the low end upward
LowFirst(bits, depth) ==
    IF depth = 0 THEN << >>
    ELSE <<IF bits % 2 = 0 THEN "Left" ELSE "Right">>
         \o LowFirst(bits \div 2, depth - 1)

\* the bits of a position below its leading 1 bit, read either way
StepsHighFirst(position) ==
    HighFirst(position % (2 ^ HighBit(position)), HighBit(position))

StepsLowFirst(position) ==
    LowFirst(position % (2 ^ HighBit(position)), HighBit(position))

RECURSIVE PathSteps(_)
\* the steps a Path yields until it is exhausted
PathSteps(path) ==
    LET n == Path_next(path)
    IN  IF n.step = None THEN << >> ELSE <<n.step[1]>> \o PathSteps(n.path)

RECURSIVE Walk(_, _)
\* the node reached from a node by a sequence of steps; a Leaf when the tree
\* ends before the steps do
Walk(node, steps) ==
    IF steps = << >> THEN node
    ELSE IF IsLeaf(node) THEN Leaf
    ELSE IF Head(steps) = "Left" THEN Walk(node.left, Tail(steps))
    ELSE Walk(node.right, Tail(steps))

\* the node holds the value
Holds(node, value) == ~IsLeaf(node) /\ node.value = Some(value)

\* the entries of the handles that resolve
Live == {e \in issued : IndexBag_get(bag, e.index) = Some(e.value)}

(***************************************************************************)
(* C15 as stated  Position-to-path encoding: the slot with position p is   *)
(* the node reached from the root by reading the bits of p below its       *)
(* leading 1 bit from the high end downward, clear = Left, set = Right (a  *)
(* Left step leads from q to 2*q, a Right step to 2*q+1): the value of     *)
(* every handle that resolves is held by the node so reached.              *)
(***************************************************************************)
C15_HighEndFirst ==
    ~panicked =>
        \A e \in Live :
            Holds(Walk(bag.data, StepsHighFirst(Index_into(e.index))), e.value)

(***************************************************************************)
(* C15 amended  Position-to-path encoding: the slot with position p is the *)
(* node reached from the root by reading the bits of p below its leading 1 *)
(* bit from the low end upward, clear = Left, set = Right: these are the   *)
(* steps Path yields, and the value of every handle that resolves, and of  *)
(* the handle the next insert returns, is held by the node so reached.     *)
(* Hence from position q at depth d a Left step leads to q + 2^d and a     *)
(* Right step to q + 2^(d+1).                                              *)
(***************************************************************************)
C15_LowEndFirst ==
    [](~panicked =>
        /\ \A e \in Live :
              Holds(Walk(bag.data, StepsLowFirst(Index_into(e.index))), e.value)
        /\ ~NextInsert.panic =>
              Holds(Walk(NextInsert.bag.data,
                         StepsLowFirst(Index_into(NextInsert.index))), NextValue)
        /\ \A q \in 1..(bag.pool_size + 1) :
              LET d == HighBit(q)
              IN  /\ PathSteps(Path_new(q)) = StepsLowFirst(q)
                  /\ PathSteps(Path_new(q + 2 ^ d))
                         = Append(PathSteps(Path_new(q)), "Left")
                  /\ PathSteps(Path_new(q + 2 ^ (d + 1)))
                         = Append(PathSteps(Path_new(q)), "Right"))

\* the handle to position 5 resolves and its value is held by the node
\* root -> Right -> Left, while root -> Left -> Right holds nothing
C15_Witness ==
    /\ ~panicked
    /\ \E e \in Live :
          /\ Index_into(e.index) = 5
          /\ StepsLowFirst(5) = <<"Right", "Left">>
          /\ Holds(Walk(bag.data, <<"Right", "Left">>), e.value)
          /\ IsLeaf(Walk(bag.data, <<"Left", "Right">>))

\* how many of the nodes visited are of a kind
Visited(visits, tag) == Cardinality({i \in DOMAIN visits : visits[i] = tag})

\* a descent within the bound: it starts at the root, visits at most
\* floor(log2(pool_size)) slots below the root, and at most one Leaf
DescentBounded(visits, pool_size) ==
    /\ Len(visits) >= 1
    /\ Visited(Tail(visits), "Index") <= HighBit(pool_size)
    /\ Visited(visits, "Leaf") <= 1

(***************************************************************************)
(* C16  Bounded descent: in every reachable state, for every handle a      *)
(* caller may pass, the descents of get, get_mut and remove end after      *)
(* visiting at most floor(log2(pool_size())) slots below the root and at   *)
(* most one Leaf; so does the descent of an insert that returns, with      *)
(* pool_size() as it is after the insert, and it goes as many levels down  *)
(* as the position it returns has bits below its leading 1.                *)
(***************************************************************************)
C16_DescentBounded ==
    [](~panicked =>
        /\ \A h \in Handles :
              /\ DescentBounded(Node_get_visits(bag.data, Index_path(h)),
                                bag.pool_size)
              /\ DescentBounded(Node_get_mut_visits(bag.data, Index_path(h)),
                                bag.pool_size)
              /\ DescentBounded(Node_remove_visits(bag.data, Index_path(h)),
                                bag.pool_size)
        /\ ~NextInsert.panic =>
              LET visits == Node_insert_visits(bag.data,
                                               Path_new(bag.pool_size + 1), checked)
              IN  /\ DescentBounded(visits, NextInsert.bag.pool_size)
                  /\ Len(visits) = HighBit(Index_into(NextInsert.index)) + 1)

\* descents that meet the bound: a lookup of a handle two levels below the
\* root in a bag of fewer than 8 positions, and a lookup that runs into a Leaf
C16_Witness ==
    /\ ~panicked
    /\ bag.pool_size < 8
    /\ \E h \in IssuedHandles :
          Node_get_visits(bag.data, Index_path(h)) = <<"Index", "Index", "Index">>
    /\ \E h \in ForeignHandles :
          Visited(Node_get_visits(bag.data, Index_path(h)), "Leaf") = 1
    /\ ~NextInsert.panic
    /\ Len(Node_insert_visits(bag.data, Path_new(bag.pool_size + 1), checked)) = 3

(***************************************************************************)
(* C17  A failed remove is a no-op: in every reachable state, for every    *)
(* handle a caller may pass, a remove that returns None leaves the whole   *)
(* bag as it was: the tree with its values, generations and vacancy        *)
(* counts, and pool_size.                                                  *)
(***************************************************************************)
C17_FailedRemoveNoOp ==
    ~panicked =>
        \A h \in Handles :
            IndexBag_remove(bag, h).removed = None => IndexBag_remove(bag, h).bag = bag

RECURSIVE SlotCount(_)
\* the number of slots (Index nodes) of the subtree
SlotCount(node) ==
    IF IsLeaf(node) THEN 0
    ELSE 1 + SlotCount(node.left) + SlotCount(node.right)

(***************************************************************************)
(* C18  Allocated positions are dense: in every reachable state the slots  *)
(* of the tree are exactly the positions 1..pool_size(), so pool_size()    *)
(* is the number of slots, and every handle insert has returned has a      *)
(* position in 1..pool_size().                                             *)
(***************************************************************************)
C18_DensePositions ==
    ~panicked =>
        /\ SlotCount(bag.data) = bag.pool_size
        /\ \A p \in 1..bag.pool_size : Allocated(bag, [index |-> p, generation |-> 0])
        /\ \A h \in IssuedHandles : Index_into(h) \in 1..bag.pool_size

RECURSIVE StoredCount(_)
\* the number of values the subtree stores
StoredCount(node) ==
    IF IsLeaf(node) THEN 0
    ELSE (IF node.value = None THEN 0 ELSE 1)
         + StoredCount(node.left) + StoredCount(node.right)

(***************************************************************************)
(* C19  Conservation under disciplined use: when the only calls are        *)
(* inserts and removes of handles that resolve, in every reachable state   *)
(* pool_size() is the number of values stored plus unused_indexes(); a     *)
(* remove of a handle that resolves returns its value and raises           *)
(* unused_indexes() by exactly 1; and the next insert returns and either   *)
(* lowers unused_indexes() by exactly 1 with pool_size() unchanged, or     *)
(* raises pool_size() by exactly 1 while unused_indexes() is and stays 0.  *)
(***************************************************************************)
C19_Conservation ==
    ~panicked =>
        /\ IndexBag_pool_size(bag)
               = StoredCount(bag.data) + IndexBag_unused_indexes(bag)
        /\ \A e \in Live :
              LET r == IndexBag_remove(bag, e.index)
              IN  /\ r.removed = Some(e.value)
                  /\ IndexBag_unused_indexes(r.bag) = IndexBag_unused_indexes(bag) + 1
                  /\ IndexBag_pool_size(r.bag) = IndexBag_pool_size(bag)
        /\ ~NextInsert.panic
        /\ LET after == NextInsert.bag
           IN  \/ /\ IndexBag_unused_indexes(bag) > 0
                  /\ IndexBag_unused_indexes(after) = IndexBag_unused_indexes(bag) - 1
                  /\ IndexBag_pool_size(after) = IndexBag_pool_size(bag)
               \/ /\ IndexBag_unused_indexes(bag) = 0
                  /\ IndexBag_unused_indexes(after) = 0
                  /\ IndexBag_pool_size(after) = IndexBag_pool_size(bag) + 1

\* the driver has grown the bag, removed values and reused a position, and
\* positions are still unused: the next insert reuses, a remove adds one more
C19_Witness ==
    /\ ~panicked
    /\ last = "insert"
    /\ IndexBag_pool_size(bag) >= 3
    /\ IndexBag_unused_indexes(bag) > 0
    /\ StoredCount(bag.data) >= 2
    /\ \E e \in values : e.index.generation > 0
    /\ IndexBag_pool_size(NextInsert.bag) = IndexBag_pool_size(bag)

(***************************************************************************)
(* C20  Handles are never reissued: in every reachable state the handle    *)
(* the next insert returns is a (position, generation) pair that no        *)
(* earlier insert on the bag has returned, so the handles returned so far  *)
(* are as many as the inserts that returned; and for every position at     *)
(* most one generation makes a handle that get resolves.                   *)
(***************************************************************************)
C20_NeverReissued ==
    [](~panicked =>
        /\ ~NextInsert.panic => NextInsert.index \notin IssuedHandles
        /\ Cardinality(IssuedHandles) = Cardinality(issued)
        /\ \A p \in 1..(bag.pool_size + 1) :
              Cardinality({g \in 0..MaxInserts :
                  IndexBag_get(bag, [index |-> p, generation |-> g]) # None}) <= 1)

\* a position has been handed out twice: the two handles differ in their
\* generation, and only the later one resolves
C20_Witness ==
    /\ ~panicked
    /\ last = "insert"
    /\ \E e \in issued, e2 \in issued :
          /\ Index_into(e.index) = Index_into(e2.index)
          /\ e.value < e2.value
          /\ e.index # e2.index
          /\ IndexBag_get(bag, e.index) = None
          /\ IndexBag_get(bag, e2.index) = Some(e2.value)

====
